---- MODULE Spec2Model ----
(***************************************************************************)
(* Model of src/rollback.rs: the Rollback marker component, the            *)
(* AddRollbackCommand entity command and the RollbackOrdered resource      *)
(* (a Vec `sorted` kept in marker order plus a HashMap `order` from        *)
(* marker to its index in `sorted`).                                       *)
(*                                                                         *)
(* Rust indices are zero-based; TLA+ sequences are one-based.  The model   *)
(* keeps the Rust indices everywhere and converts only in At / Swap.       *)
(***************************************************************************)
EXTENDS Integers, Sequences, FiniteSets

\* Entities are 1..MaxEntity (Entity is totally ordered, rollback.rs:11-12).
MaxEntity == 3

\* Cap on the number of registrations (the length of `sorted`).
MaxLen == 4

Entities == 1..MaxEntity

VARIABLES
    alive,       \* entities that currently exist in the World
    despawned,   \* entities that existed and were deleted
    components,  \* entity -> its Rollback component (World storage)
    present,     \* TRUE once the RollbackOrdered resource was inserted
    order,       \* RollbackOrdered.order : HashMap<Rollback, usize>
    sorted,      \* RollbackOrdered.sorted : Vec<Rollback>
    registered,  \* history: marker -> number of push calls made with it
    last,        \* the most recent call on the API and its outcome
    yielded      \* result of the most recent iter_sorted since the last push

vars == <<alive, despawned, components, present, order, sorted, registered, last, yielded>>

----------------------------------------------------------------------------
(* Rollback: a newtype around Entity with derived Eq / Ord / Hash.          *)

\* Rollback::new
New(entity) == [entity |-> entity]

Markers == {New(e) : e \in Entities}

\* derived PartialOrd / Ord on Rollback(Entity): compares the wrapped entity
Ge(a, b) == a.entity >= b.entity

Lt(a, b) == ~Ge(a, b)

----------------------------------------------------------------------------
(* Vec and HashMap primitives used by RollbackOrdered.                      *)

\* self.sorted[index], zero-based
At(s, index) == s[index + 1]

\* Mutant of Swap: the element at j is copied over the one at i without
\* saving it first, so the marker at i is lost and the one at j doubled.
SwapClobber(s, i, j) ==
    [k \in 1..Len(s) |-> IF k = i + 1 THEN s[j + 1] ELSE s[k]]

\* Vec::swap(i, j), zero-based
Swap(s, i, j) ==
    [k \in 1..Len(s) |->
        IF k = i + 1 THEN s[j + 1] ELSE IF k = j + 1 THEN s[i + 1] ELSE s[k]]

\* HashMap::insert(key, value): adds the key or overwrites its value
Insert(map, key, value) ==
    [k \in (DOMAIN map) \cup {key} |-> IF k = key THEN value ELSE map[k]]

\* RollbackOrdered::default(): both collections empty
EmptyMap == [k \in {} |-> 0]

----------------------------------------------------------------------------
(* RollbackOrdered::push.  A scan state is the registry together with the   *)
(* loop variable `index` and whether the loop is still running.            *)

\* Mutant of ScanStep: the loop ends after its first swap.
ScanStepSingleSwap(st) ==
    IF st.index < 1
    THEN [st EXCEPT !.running = FALSE]
    ELSE IF Ge(At(st.sorted, st.index), At(st.sorted, st.index - 1))
    THEN [st EXCEPT !.order = Insert(@, At(st.sorted, st.index), st.index),
                    !.running = FALSE]
    ELSE LET s == Swap(st.sorted, st.index, st.index - 1) IN
         [st EXCEPT !.sorted = s,
                    !.order = Insert(@, At(s, st.index), st.index),
                    !.index = st.index - 1,
                    !.running = FALSE]

\* Mutant of ScanStep: the stable branch breaks without writing the map.
ScanStepSilentBreak(st) ==
    IF st.index < 1
    THEN [st EXCEPT !.running = FALSE]
    ELSE IF Ge(At(st.sorted, st.index), At(st.sorted, st.index - 1))
    THEN [st EXCEPT !.running = FALSE]
    ELSE LET s == Swap(st.sorted, st.index, st.index - 1) IN
         [st EXCEPT !.sorted = s,
                    !.order = Insert(@, At(s, st.index), st.index),
                    !.index = st.index - 1]

\* One iteration of `for index in (1..self.sorted.len()).rev()`.
ScanStep(st) ==
    IF st.index < 1
    THEN \* range exhausted: the loop ends, nothing is written
         [st EXCEPT !.running = FALSE]
    ELSE IF Ge(At(st.sorted, st.index), At(st.sorted, st.index - 1))
    THEN \* stable: record the index of the marker at `index`, break
         [st EXCEPT !.order = Insert(@, At(st.sorted, st.index), st.index),
                    !.running = FALSE]
    ELSE \* swap with the predecessor, record the marker now at `index`
         LET s == Swap(st.sorted, st.index, st.index - 1) IN
         [st EXCEPT !.sorted = s,
                    !.order = Insert(@, At(s, st.index), st.index),
                    !.index = st.index - 1]

RECURSIVE Scan(_)
Scan(st) == IF st.running THEN Scan(ScanStep(st)) ELSE st

\* The whole of push: append, first-item early return, backward scan.
Push(reg, rollback) ==
    LET appended == Append(reg.sorted, rollback) IN
    IF Len(appended) = 1
    THEN [sorted |-> appended, order |-> Insert(reg.order, rollback, 0)]
    ELSE LET end == Scan([sorted |-> appended, order |-> reg.order,
                          index |-> Len(appended) - 1, running |-> TRUE])
         IN [sorted |-> end.sorted, order |-> end.order]

\* Mutant of IterItems: the iteration stops one item early.
IterItemsShort(s) == [k \in 1..(Len(s) - 1) |-> s[k]]

\* RollbackOrdered::iter_sorted: the items the iterator yields, in order
IterItems(s) == [k \in 1..Len(s) |-> s[k]]

\* RollbackOrdered::order: Some(index) or the `expect` panic
Lookup(map, rollback) ==
    IF rollback \in DOMAIN map
    THEN [ok |-> TRUE, val |-> map[rollback]]
    ELSE [ok |-> FALSE, val |-> 0]

----------------------------------------------------------------------------
(* The state machine.                                                       *)

Init ==
    /\ alive = {}
    /\ despawned = {}
    /\ components = [e \in {} |-> New(e)]
    /\ present = FALSE
    /\ order = EmptyMap
    /\ sorted = <<>>
    /\ registered = [m \in Markers |-> 0]
    /\ last = [op |-> "none"]
    /\ yielded = [valid |-> FALSE, items |-> <<>>]

\* The World allocates a fresh entity; an entity value is never reused.
Spawn(id) ==
    /\ id \notin alive \cup despawned
    /\ alive' = alive \cup {id}
    /\ UNCHANGED <<despawned, components, present, order, sorted, registered, last, yielded>>

\* The World deletes an entity together with its components.  The registry
\* is not told (iter_sorted: "even if they have since been deleted").
Despawn(id) ==
    /\ id \in alive
    /\ alive' = alive \ {id}
    /\ despawned' = despawned \cup {id}
    /\ components' = [e \in (DOMAIN components) \ {id} |-> components[e]]
    /\ UNCHANGED <<present, order, sorted, registered, last, yielded>>

\* AddRollbackCommand::apply on an entity of the World.
AddRollbackCommand(id) ==
    /\ id \in alive
    /\ Len(sorted) < MaxLen
    /\ LET rollback == New(id)
           reg == Push([sorted |-> sorted, order |-> order], rollback)
       IN /\ components' = Insert(components, id, rollback)
          /\ present' = TRUE
          /\ sorted' = reg.sorted
          /\ order' = reg.order
          /\ registered' = [registered EXCEPT ![rollback] = @ + 1]
          /\ last' = [op |-> "push", arg |-> rollback]
    /\ yielded' = [valid |-> FALSE, items |-> <<>>]
    /\ UNCHANGED <<alive, despawned>>

\* AddRollbackCommand::apply on an entity that does not exist:
\* world.entity_mut(id) panics before anything is written.
AddRollbackCommandMissing(id) ==
    /\ id \notin alive
    /\ last' = [op |-> "apply_panic", arg |-> id]
    /\ UNCHANGED <<alive, despawned, components, present, order, sorted, registered, yielded>>

\* RollbackOrdered::iter_sorted, consumed to the end
IterSorted ==
    /\ present
    /\ yielded' = [valid |-> TRUE, items |-> IterItems(sorted)]
    /\ last' = [op |-> "iter"]
    /\ UNCHANGED <<alive, despawned, components, present, order, sorted, registered>>

\* RollbackOrdered::order(rollback)
Order(rollback) ==
    /\ present
    /\ last' = [op |-> "order", arg |-> rollback, res |-> Lookup(order, rollback)]
    /\ UNCHANGED <<alive, despawned, components, present, order, sorted, registered, yielded>>

Next ==
    \/ \E id \in Entities : Spawn(id)
    \/ \E id \in Entities : Despawn(id)
    \/ \E id \in Entities : AddRollbackCommand(id)
    \/ \E id \in Entities : AddRollbackCommandMissing(id)
    \/ IterSorted
    \/ \E rollback \in Markers : Order(rollback)

Spec == Init /\ [][Next]_vars

----------------------------------------------------------------------------
(* push taken one loop iteration at a time.  While a push is under way      *)
(* `last` is the call in progress: its argument, the loop variable `index`, *)
(* the number of swaps done, the lowest position of `sorted` read or        *)
(* written so far, and `sorted` as it was before the call.  push holds      *)
(* &mut self, so no other operation runs until it has returned.             *)

Min(a, b) == IF a < b THEN a ELSE b

\* no push is under way
Quiet == last.op # "scan"

\* AddRollbackCommand::apply up to the start of the loop of push:
\* the component, the resource, the append and the first-item early return.
PushBegin(id) ==
    /\ Quiet
    /\ id \in alive
    /\ Len(sorted) < MaxLen
    /\ LET rollback == New(id)
           appended == Append(sorted, rollback)
       IN /\ components' = Insert(components, id, rollback)
          /\ present' = TRUE
          /\ sorted' = appended
          /\ order' = IF Len(appended) = 1 THEN Insert(order, rollback, 0) ELSE order
          /\ registered' = [registered EXCEPT ![rollback] = @ + 1]
          /\ last' = [op |-> IF Len(appended) = 1 THEN "push" ELSE "scan",
                      arg |-> rollback,
                      index |-> Len(appended) - 1,
                      swaps |-> 0,
                      low |-> Len(appended) - 1,
                      before |-> sorted]
    /\ yielded' = [valid |-> FALSE, items |-> <<>>]
    /\ UNCHANGED <<alive, despawned>>

\* One iteration of the loop of push, or its end when the range is used up.
PushStep ==
    /\ last.op = "scan"
    /\ LET st == ScanStep([sorted |-> sorted, order |-> order,
                           index |-> last.index, running |-> TRUE])
       IN /\ sorted' = st.sorted
          /\ order' = st.order
          /\ last' = [op |-> IF st.running THEN "scan" ELSE "push",
                      arg |-> last.arg,
                      index |-> st.index,
                      swaps |-> IF st.index # last.index THEN last.swaps + 1 ELSE last.swaps,
                      low |-> IF last.index < 1 THEN last.low ELSE Min(last.low, last.index - 1),
                      before |-> last.before]
    /\ UNCHANGED <<alive, despawned, components, present, registered, yielded>>

NextStep ==
    \/ \E id \in Entities : Quiet /\ Spawn(id)
    \/ \E id \in Entities : Quiet /\ Despawn(id)
    \/ \E id \in Entities : PushBegin(id)
    \/ PushStep
    \/ \E id \in Entities : Quiet /\ AddRollbackCommandMissing(id)
    \/ Quiet /\ IterSorted
    \/ \E rollback \in Markers : Quiet /\ Order(rollback)

SpecStep == Init /\ [][NextStep]_vars

----------------------------------------------------------------------------
(* Vocabulary of the properties.                                            *)

\* the markers passed to push so far
Registered == {m \in Markers : registered[m] > 0}

\* every push so far was given a marker not registered before
Distinct == \A m \in Markers : registered[m] <= 1

\* the markers held by a sequence, and how often a sequence holds a marker
Members(s) == {s[k] : k \in 1..Len(s)}

Occurrences(s, m) == Cardinality({k \in 1..Len(s) : s[k] = m})

NonDecreasing(s) == \A k \in 1..(Len(s) - 1) : Ge(s[k + 1], s[k])

StrictlyIncreasing(s) == \A k \in 1..(Len(s) - 1) : Lt(s[k], s[k + 1])

\* the number of registered markers smaller than m
CountSmaller(m) == Cardinality({x \in Registered : Lt(x, m)})

----------------------------------------------------------------------------
\* C1 (order consistency): after every completed push, whatever markers were
\* registered in whatever order, `sorted` is non-decreasing by marker value
\* from its first to its last position.
OrderConsistency == NonDecreasing(sorted)

\* witness of C1: a push of a marker smaller than two registered ones has
\* completed (the marker was moved down from the tail by the scan).
OrderConsistencyWitness ==
    /\ last.op = "push"
    /\ Len(sorted) >= 3
    /\ Cardinality({x \in Registered : Lt(last.arg, x)}) >= 2

----------------------------------------------------------------------------
\* C2 (index correctness): with pairwise distinct registrations, every marker
\* at position i of `sorted` has an entry in `order`, and that entry is i.
IndexCorrectness ==
    Distinct =>
        \A i \in 0..(Len(sorted) - 1) :
            /\ At(sorted, i) \in DOMAIN order
            /\ order[At(sorted, i)] = i

----------------------------------------------------------------------------
\* C3 (result of registration): with distinct registrations, right after
\* push(m) the lookup of m succeeds and returns the number of registered
\* markers smaller than m (0 when m is smaller than all of them).
RegistrationResult ==
    (Distinct /\ last.op = "push") =>
        /\ Lookup(order, last.arg).ok
        /\ Lookup(order, last.arg).val = CountSmaller(last.arg)

----------------------------------------------------------------------------
\* C4 (co-indexed views): with distinct registrations, the key set of `order`
\* is exactly the set of markers in `sorted`, and both have the same size.
CoIndexedViews ==
    Distinct =>
        /\ DOMAIN order = Members(sorted)
        /\ Cardinality(DOMAIN order) = Len(sorted)

----------------------------------------------------------------------------
\* C5 (unique, order-consistent index): with distinct registrations, for any
\* two registered markers a and b both lookups return, the index of a is
\* below the index of b exactly when a < b, and distinct markers never share
\* an index.
OrderIndexConsistent ==
    Distinct =>
        \A a \in Registered : \A b \in Registered :
            /\ Lookup(order, a).ok
            /\ Lookup(order, b).ok
            /\ (Lookup(order, a).val < Lookup(order, b).val) <=> Lt(a, b)
            /\ (a # b => Lookup(order, a).val # Lookup(order, b).val)

----------------------------------------------------------------------------
\* C6 (shift-minimality): when a new marker m is pushed into a registry of
\* distinct markers, the lookup result of every registered marker greater
\* than m increases by exactly one and the lookup result of every registered
\* marker smaller than m is unchanged.
ShiftMinimality ==
    [][\A id \in Entities :
         (AddRollbackCommand(id) /\ Distinct /\ registered[New(id)] = 0) =>
            \A x \in Registered :
                /\ Lt(New(id), x) =>
                       /\ Lookup(order, x).ok
                       /\ Lookup(order', x).ok
                       /\ Lookup(order', x).val = Lookup(order, x).val + 1
                /\ Lt(x, New(id)) => Lookup(order', x) = Lookup(order, x)]_vars

----------------------------------------------------------------------------
\* C7 as stated (stability under append): pushing a marker greater than or
\* equal to every registered marker leaves the position in `sorted` and the
\* lookup result of every registered marker unchanged.
StabilityUnderAppendAsStated ==
    [][\A id \in Entities :
         (AddRollbackCommand(id) /\ \A x \in Registered : Ge(New(id), x)) =>
            /\ \A k \in 1..Len(sorted) : sorted'[k] = sorted[k]
            /\ \A x \in Registered : Lookup(order', x) = Lookup(order, x)]_vars

\* C7 as amended: pushing a marker greater than or equal to every registered
\* marker performs no swap (the marker stays at the tail), writes only the
\* pushed marker's map entry, and so leaves the position in `sorted` of
\* every registered marker and the lookup result of every registered marker
\* other than the pushed marker itself unchanged.
StabilityUnderAppend ==
    [][\A id \in Entities :
         (AddRollbackCommand(id) /\ \A x \in Registered : Ge(New(id), x)) =>
            /\ sorted' = Append(sorted, New(id))
            /\ order' = Insert(order, New(id), Len(sorted))
            /\ \A x \in Registered \ {New(id)} :
                   Lookup(order', x) = Lookup(order, x)]_vars

\* witness of C7: 3 was pushed last onto the markers 1 and 2, and the
\* indices are {1:0, 2:1, 3:2}.
StabilityUnderAppendWitness ==
    /\ last.op = "push"
    /\ last.arg = New(3)
    /\ sorted = <<New(1), New(2), New(3)>>
    /\ DOMAIN order = {New(1), New(2), New(3)}
    /\ order[New(1)] = 0 /\ order[New(2)] = 1 /\ order[New(3)] = 2

----------------------------------------------------------------------------
\* C8 (unregistered lookup fails): a lookup ends in the not-registered panic
\* exactly when its marker was never pushed, and a lookup changes neither
\* `sorted` nor `order`.
UnregisteredLookupFails ==
    [][\A m \in Markers :
         Order(m) =>
            /\ (~last'.res.ok) <=> (registered[m] = 0)
            /\ sorted' = sorted
            /\ order' = order]_vars

----------------------------------------------------------------------------
----------------------------------------------------------------------------
\* C10 (append-only growth): every push makes `sorted` longer by exactly one,
\* adding one copy of the pushed marker and leaving the number of copies of
\* every other marker as it was; no step removes a marker from `sorted`;
\* every step that is not a push (the deletion of an entity included)
\* leaves `sorted` as it is.
AppendOnlyGrowth ==
    [][/\ \A m \in Markers : Occurrences(sorted', m) >= Occurrences(sorted, m)
       /\ \A id \in Entities :
              AddRollbackCommand(id) =>
                  /\ Len(sorted') = Len(sorted) + 1
                  /\ \A m \in Markers :
                         Occurrences(sorted', m) =
                             Occurrences(sorted, m) + (IF m = New(id) THEN 1 ELSE 0)
       /\ ~(\E id \in Entities : AddRollbackCommand(id))
              => sorted' = sorted]_vars

\* witness of C10: an entity was deleted after its marker was registered, a
\* later iteration still yields the marker, among at least three.
AppendOnlyGrowthWitness ==
    /\ yielded.valid
    /\ Len(yielded.items) >= 3
    /\ \E e \in despawned : New(e) \in Members(yielded.items)

----------------------------------------------------------------------------
\* C11 (registration precedes query): every entity that carries a Rollback
\* component has its marker registered, so the lookup of the component of
\* any such entity returns an index and never ends in the not-registered
\* panic.
RegistrationPrecedesQuery ==
    \A e \in DOMAIN components :
        /\ registered[components[e]] > 0
        /\ Lookup(order, components[e]).ok

----------------------------------------------------------------------------
\* C12 (no duplicates): `sorted` holds every marker as often as it was
\* pushed; so it holds no marker twice as long as every push was given a
\* marker not registered before, and holds a marker twice once a repeated
\* marker was pushed (push rejects nothing).
NoDuplicates ==
    /\ \A m \in Markers : Occurrences(sorted, m) = registered[m]
    /\ Distinct => \A m \in Markers : Occurrences(sorted, m) <= 1

\* witness of C12: three distinct markers were registered, the smallest one
\* after a greater one (it reached the front by swaps).
NoDuplicatesWitness ==
    /\ Distinct
    /\ Len(sorted) = 3
    /\ New(1) \notin DOMAIN order

----------------------------------------------------------------------------
\* the one-based position of the last copy of m in s (m occurs in s)
LastCopy(s, m) ==
    CHOOSE k \in 1..Len(s) : s[k] = m /\ \A j \in (k + 1)..Len(s) : s[j] # m

\* s with m put in directly after one-based position p
PutAfter(s, p, m) == SubSeq(s, 1, p) \o <<m>> \o SubSeq(s, p + 1, Len(s))

\* C13 (duplicate registration): pushing a marker m that is already in the
\* registry adds a second copy of m to `sorted` directly after the existing
\* copy or copies, keeps `sorted` non-decreasing, leaves the number of keys
\* of `order` unchanged while `sorted` grows by one, and sets the lookup
\* result of m to the position of the newly added, last copy.
DuplicateRegistration ==
    [][\A id \in Entities :
         (AddRollbackCommand(id) /\ registered[New(id)] > 0) =>
            /\ sorted' = PutAfter(sorted, LastCopy(sorted, New(id)), New(id))
            /\ NonDecreasing(sorted')
            /\ Len(sorted') = Len(sorted) + 1
            /\ Cardinality(DOMAIN order') = Cardinality(DOMAIN order)
            /\ Lookup(order', New(id)) =
                   [ok |-> TRUE, val |-> LastCopy(sorted', New(id)) - 1]]_vars

----------------------------------------------------------------------------
\* the registry after pushing the items of seq, first to last, onto reg
RECURSIVE PushAll(_, _)
PushAll(reg, seq) ==
    IF seq = <<>> THEN reg ELSE PushAll(Push(reg, Head(seq)), Tail(seq))

\* every order in which the markers of the set S can be registered
Orderings(S) ==
    {p \in [1..Cardinality(S) -> S] : \A i, j \in DOMAIN p : i # j => p[i] # p[j]}

\* C14 (determinism with respect to registration order): when distinct
\* markers were registered, registering the same set of markers from the
\* empty registry in any order ends in the registry state that was reached,
\* the same `sorted` and the same `order`.
OrderIndependent ==
    (Distinct /\ present) =>
        \A p \in Orderings(Registered) :
            PushAll([sorted |-> <<>>, order |-> EmptyMap], p)
                = [sorted |-> sorted, order |-> order]

----------------------------------------------------------------------------
\* the number of items of s strictly greater than m
CountGreater(s, m) == Cardinality({k \in 1..Len(s) : Lt(m, s[k])})

\* s without its item at zero-based position i
RemoveAt(s, i) == SubSeq(s, 1, i) \o SubSeq(s, i + 2, Len(s))

\* C15 (bounded backward scan), under SpecStep: a push on n markers ends
\* after at most n + 1 loop steps (each step ends the loop or lowers `index`,
\* which stays within 0..n); when it has ended it has done exactly k swaps,
\* k the number of registered markers strictly greater than the new one,
\* 0 <= k <= n; the new marker rests at position n - k, which is the front or
\* directly after the first predecessor found not greater; no position
\* before that predecessor was read or written.
BoundedScan ==
    [][/\ PushStep =>
            \/ last'.op = "push"
            \/ last'.index < last.index
       /\ last'.op = "scan" =>
            /\ last'.index \in 0..Len(last'.before)
            /\ last'.swaps + last'.index = Len(last'.before)
       /\ (last' # last /\ last'.op = "push") =>
            LET n == Len(last'.before)
                m == last'.arg
                k == CountGreater(last'.before, m)
                stop == IF n - k = 0 THEN 0 ELSE n - k - 1
            IN /\ last'.swaps = k
               /\ k \in 0..n
               /\ last'.index = n - k
               /\ At(sorted', n - k) = m
               /\ n - k > 0 => Ge(m, At(sorted', n - k - 1))
               /\ \A j \in (n - k + 1)..n : Lt(m, At(sorted', j))
               /\ last'.low = stop
               /\ \A j \in 0..(stop - 1) : At(sorted', j) = At(last'.before, j)]_vars

\* witness of C15: a push has ended after two swaps and stopped behind a
\* smaller predecessor, short of the front.
BoundedScanWitness ==
    /\ last.op = "push"
    /\ last.swaps = 2
    /\ last.index = 1
    /\ last.low = 0
    /\ Len(last.before) = 3

----------------------------------------------------------------------------
\* C16 (scan invariant), under SpecStep: at every step of push(m) between
\* the append and the end of the loop, the moving copy of m is at `index`,
\* `sorted` without it is `sorted` as it was before the push (so `sorted` is
\* a permutation of the old markers plus m, nothing lost or doubled), and
\* every adjacent pair other than m and its immediate predecessor is in
\* non-decreasing order.
ScanInvariant ==
    last.op = "scan" =>
        /\ last.index \in 0..(Len(sorted) - 1)
        /\ At(sorted, last.index) = last.arg
        /\ RemoveAt(sorted, last.index) = last.before
        /\ Len(sorted) = Len(last.before) + 1
        /\ \A m \in Markers :
               Occurrences(sorted, m) =
                   Occurrences(last.before, m) + (IF m = last.arg THEN 1 ELSE 0)
        /\ \A k \in 1..(Len(sorted) - 1) :
               k # last.index => Ge(sorted[k + 1], sorted[k])

\* witness of C16: the scan is under way after one swap, and m is still
\* smaller than its predecessor.
ScanInvariantWitness ==
    /\ last.op = "scan"
    /\ last.swaps = 1
    /\ last.index >= 1
    /\ Lt(At(sorted, last.index), At(sorted, last.index - 1))

====
